---- MODULE Spec2Model ----
(***************************************************************************)
(* miniMD: one step of overdamped Langevin dynamics, update_positions of   *)
(* src/miniMD/miniMD.py, called repeatedly by a trajectory driver.         *)
(*                                                                         *)
(* Arrays are heap objects [shape, dtype, data]: data is the flat buffer   *)
(* in C order.  Numbers are integers standing for reals on a grid: every   *)
(* integer is a double-precision value, the even integers are the          *)
(* single-precision values, so that narrowing to float32 rounds.           *)
(* The body of update_positions is followed statement by statement.        *)
(***************************************************************************)
EXTENDS Integers, Sequences, FiniteSets

VARIABLES heap, rng, calls, passed, last, twin

vars == <<heap, rng, calls, passed, last, twin>>

\* Number of calls the trajectory driver makes.
MaxCalls == 2

\* ------------------------------------------------------------------------
\* Arrays

RECURSIVE Size(_)
\* Number of elements of an array of shape s (the product of its dimensions;
\* 1 for the empty shape of a 0-d array).
Size(s) == IF s = <<>> THEN 1 ELSE Head(s) * Size(Tail(s))

\* The values of the arguments beta, dt and diffusion_coeff the driver passes.
ScalarValues == {-1, 0, 1, 2}

\* The values np.random.randn hands out, before any narrowing.
RawSamples == {-3, 0, 1}

\* The arrays the caller owns: configurations and forces of several systems.
Pool ==
  << [shape |-> <<1, 2>>, dtype |-> "float32", data |-> <<2, -2>>],
     [shape |-> <<1, 2>>, dtype |-> "float64", data |-> <<0, 0>>],
     [shape |-> <<1, 2>>, dtype |-> "float64", data |-> <<1, -1>>],
     [shape |-> <<2, 1>>, dtype |-> "float32", data |-> <<0, 2>>],
     [shape |-> <<>>,     dtype |-> "float32", data |-> <<2>>] >>

\* Python floats, and the float64 that numba types them as.
ScalarType == "float64"

\* Result type of an operation on two floating-point operands: the wider.
Promote(t1, t2) == IF t1 = "float64" \/ t2 = "float64" THEN "float64" ELSE "float32"

\* .astype(np.float32) on one value: round to the nearest single-precision value.
RoundToSingle(v) == 2 * ((v + 1) \div 2)

\* np.sqrt on a non-negative double, rounded to the grid.
Sqrt(n) == CHOOSE r \in 0..n : r * r <= n /\ (r + 1) * (r + 1) > n

\* scalar * array: a new array, elementwise.
MulScalar(s, a) ==
  [shape |-> a.shape, dtype |-> Promote(ScalarType, a.dtype),
   data |-> [i \in 1..Len(a.data) |-> s * a.data[i]]]

\* array + array of the same shape: a new array, elementwise.
Add(a, b) ==
  [shape |-> a.shape, dtype |-> Promote(a.dtype, b.dtype),
   data |-> [i \in 1..Len(a.data) |-> a.data[i] + b.data[i]]]

\* array.astype(np.float32): a new array of the same shape.
AsFloat32(a) ==
  [shape |-> a.shape, dtype |-> "float32",
   data |-> [i \in 1..Len(a.data) |-> RoundToSingle(a.data[i])]]

\* ------------------------------------------------------------------------
\* update_positions

MsgDt == "Timestep must be positive."
MsgDiffusion == "Diffusion coefficient must be positive."
MsgBeta == "Temperature must be positive."
MsgShape == "Force and position vector must be of the same size, check your force function."

\* Validate with the timestep check written dt >= 0.
Validate_AcceptsZero(h, current_x, force, beta, dt, diffusion_coeff) ==
  IF ~(dt >= 0) THEN MsgDt
  ELSE IF ~(diffusion_coeff > 0) THEN MsgDiffusion
  ELSE IF ~(beta > 0) THEN MsgBeta
  ELSE IF ~(h[current_x].shape = h[force].shape) THEN MsgShape
  ELSE ""

\* Validate with the arrays compared by size (number of elements), not shape.
Validate_SizeOnly(h, current_x, force, beta, dt, diffusion_coeff) ==
  IF ~(dt > 0) THEN MsgDt
  ELSE IF ~(diffusion_coeff > 0) THEN MsgDiffusion
  ELSE IF ~(beta > 0) THEN MsgBeta
  ELSE IF ~(Size(h[current_x].shape) = Size(h[force].shape)) THEN MsgShape
  ELSE ""

\* Validate with the shape assertion moved to the top.
Validate_ShapeFirst(h, current_x, force, beta, dt, diffusion_coeff) ==
  IF ~(h[current_x].shape = h[force].shape) THEN MsgShape
  ELSE IF ~(dt > 0) THEN MsgDt
  ELSE IF ~(diffusion_coeff > 0) THEN MsgDiffusion
  ELSE IF ~(beta > 0) THEN MsgBeta
  ELSE ""

\* The four assertions, in order: the message of the first that fails, or "".
Validate(h, current_x, force, beta, dt, diffusion_coeff) ==
  IF ~(dt > 0) THEN MsgDt
  ELSE IF ~(diffusion_coeff > 0) THEN MsgDiffusion
  ELSE IF ~(beta > 0) THEN MsgBeta
  ELSE IF ~(h[current_x].shape = h[force].shape) THEN MsgShape
  ELSE ""

\* Advance with one draw counted per element, as a loop over randn() makes.
Advance_PerElement(r, shape) ==
  [draws |-> r.draws + Size(shape), pos |-> r.pos + Size(shape)]

\* np.random.randn(*shape): the state of the generator after the draw.
Advance(r, shape) == [draws |-> r.draws + 1, pos |-> r.pos + Size(shape)]

\* np.random.randn(*shape): an array of samples z, or with no argument
\* (the empty shape) a single Python float.
randn(shape, z) ==
  IF shape = <<>> THEN [isarray |-> FALSE, value |-> z[1]]
  ELSE [isarray |-> TRUE,
        array |-> [shape |-> shape, dtype |-> "float64", data |-> z]]

\* Prefactor without the factor 2.
Prefactor_NoTwo(dt, diffusion_coeff) == Sqrt(diffusion_coeff * dt)

\* prefactor = np.sqrt(2 * diffusion_coeff * dt)
Prefactor(dt, diffusion_coeff) == Sqrt(2 * diffusion_coeff * dt)

\* Displacement with one sample shared by all elements.
Displacement_SharedNoise(force_a, gauss_rand, beta, dt, diffusion_coeff) ==
  Add(MulScalar(beta, MulScalar(diffusion_coeff * dt, force_a)),
      MulScalar(Prefactor(dt, diffusion_coeff),
                [gauss_rand EXCEPT !.data =
                   [i \in 1..Len(gauss_rand.data) |-> gauss_rand.data[1]]]))

\* dx = diffusion_coeff * dt * force * beta + prefactor * gauss_rand
Displacement(force_a, gauss_rand, beta, dt, diffusion_coeff) ==
  Add(MulScalar(beta, MulScalar(diffusion_coeff * dt, force_a)),
      MulScalar(Prefactor(dt, diffusion_coeff), gauss_rand))

\* Store written as current_x += dx; return current_x.
Store_InPlace(h, current_x, dx) ==
  [heap |-> [h EXCEPT ![current_x] = Add(h[current_x], dx)], value |-> current_x]

\* The heap and the returned reference after next_x = current_x + dx; return next_x
Store(h, current_x, dx) ==
  [heap |-> Append(h, Add(h[current_x], dx)), value |-> Len(h) + 1]

\* The samples the call asks the generator for.
Requested(h, current_x, force, beta, dt, diffusion_coeff) ==
  IF Validate(h, current_x, force, beta, dt, diffusion_coeff) = ""
  THEN Size(h[current_x].shape) ELSE 0

\* update_positions with the draw made before the assertions.
update_positions_DrawFirst(h, r, current_x, force, beta, dt, diffusion_coeff, z) ==
  LET msg == Validate(h, current_x, force, beta, dt, diffusion_coeff)
      r2 == Advance(r, h[current_x].shape) IN
  IF msg # ""
  THEN [heap |-> h, rng |-> r2, status |-> "raise", exc |-> "AssertionError",
        msg |-> msg, value |-> 0]
  ELSE
    LET drawn == randn(h[current_x].shape, z) IN
    IF ~drawn.isarray
    THEN [heap |-> h, rng |-> r2, status |-> "raise", exc |-> "AttributeError",
          msg |-> "'float' object has no attribute 'astype'", value |-> 0]
    ELSE
      LET gauss_rand == AsFloat32(drawn.array)
          dx == Displacement(h[force], gauss_rand, beta, dt, diffusion_coeff)
          st == Store(h, current_x, dx) IN
      [heap |-> st.heap, rng |-> r2, status |-> "return", exc |-> "",
       msg |-> "", value |-> st.value]

\* One call: the heap and generator after it, and how it ended.
update_positions(h, r, current_x, force, beta, dt, diffusion_coeff, z) ==
  LET msg == Validate(h, current_x, force, beta, dt, diffusion_coeff) IN
  IF msg # ""
  THEN [heap |-> h, rng |-> r, status |-> "raise", exc |-> "AssertionError",
        msg |-> msg, value |-> 0]
  ELSE
    LET drawn == randn(h[current_x].shape, z)
        r2 == Advance(r, h[current_x].shape) IN
    IF ~drawn.isarray
    THEN [heap |-> h, rng |-> r2, status |-> "raise", exc |-> "AttributeError",
          msg |-> "'float' object has no attribute 'astype'", value |-> 0]
    ELSE
      LET gauss_rand == AsFloat32(drawn.array)
          dx == Displacement(h[force], gauss_rand, beta, dt, diffusion_coeff)
          st == Store(h, current_x, dx) IN
      [heap |-> st.heap, rng |-> r2, status |-> "return", exc |-> "",
       msg |-> "", value |-> st.value]

\* ------------------------------------------------------------------------
\* The trajectory driver

\* What the driver holds when a call returned nothing.
NoArray == [shape |-> <<0>>, dtype |-> "", data |-> <<>>]

\* The driver's record of a call: its arguments, the generator before it, the
\* samples it was handed, how it ended and the configuration it returned.
NoCall ==
  [current_x |-> 0, force |-> 0, beta |-> 0, dt |-> 0, diffusion_coeff |-> 0,
   z |-> <<>>, rng_before |-> [draws |-> 0, pos |-> 0],
   status |-> "none", exc |-> "", msg |-> "", value |-> 0, next_x |-> NoArray]

Init ==
  /\ heap = Pool
  /\ rng = [draws |-> 0, pos |-> 0]
  /\ calls = 0
  /\ passed = 0
  /\ last = NoCall
  /\ twin = NoCall

\* The arrays the caller holds when it calls: it has dropped the last result.
CallerHeap == SubSeq(heap, 1, Len(Pool))

\* The driver calls update_positions once, with arguments of its choice.  An
\* exception is not caught: it ends the run, and no call follows it.
CallWith(scalars, n) ==
  /\ calls < n
  /\ last.status # "raise"
  /\ \E current_x \in 1..Len(Pool), force \in 1..Len(Pool) :
     \E beta \in scalars, dt \in scalars, diffusion_coeff \in scalars :
     \E z \in [1..Requested(CallerHeap, current_x, force, beta, dt, diffusion_coeff)
                 -> RawSamples] :
     \E out \in {update_positions(CallerHeap, rng, current_x, force,
                                   beta, dt, diffusion_coeff, z)} :
         /\ heap' = out.heap
         /\ rng' = out.rng
         /\ calls' = calls + 1
         /\ passed' = passed + (IF out.exc = "AssertionError" THEN 0 ELSE 1)
         /\ last' = [current_x |-> current_x, force |-> force, beta |-> beta,
                     dt |-> dt, diffusion_coeff |-> diffusion_coeff, z |-> z,
                     rng_before |-> rng,
                     status |-> out.status, exc |-> out.exc, msg |-> out.msg,
                     value |-> out.value,
                     next_x |-> IF out.status = "return"
                                THEN out.heap[out.value] ELSE NoArray]

Call == CallWith(ScalarValues, MaxCalls) /\ UNCHANGED twin

Next == Call

Spec == Init /\ [][Next]_vars

\* Two calls with valid parameters, the first remembered beside the second.
TwinCall == CallWith({s \in ScalarValues : s > 0}, 1 + 1) /\ twin' = last

NextTwin == TwinCall

SpecTwin == Init /\ [][NextTwin]_vars

\* ------------------------------------------------------------------------
\* Properties

\* The error kinds of the specification, told apart by the assertion that failed.
ErrorKind(c) ==
  IF c.exc = "AssertionError" /\ c.msg \in {MsgDt, MsgDiffusion, MsgBeta}
  THEN "InvalidParameter"
  ELSE IF c.exc = "AssertionError" /\ c.msg = MsgShape THEN "ShapeMismatch"
  ELSE "none"

Called(c) == c.status # "none"

PositiveScalars(c) == c.dt > 0 /\ c.diffusion_coeff > 0 /\ c.beta > 0

SameShape(c) == Pool[c.current_x].shape = Pool[c.force].shape

\* The inputs the specification calls valid.
ValidArgs(c) == PositiveScalars(c) /\ SameShape(c)

\* A call that returned nothing and allocated nothing.
NoConfiguration(c) == c.status = "raise" /\ c.value = 0 /\ c.next_x = NoArray

AllZero(d) == \A i \in 1..Len(d) : d[i] = 0

\* C1: every element of a returned configuration is current_x[i] +
\* diffusion_coeff*dt*beta*force[i] + sqrt(2*diffusion_coeff*dt)*g[i], g being the
\* samples of the call as narrowed to single precision; with g all zeros the
\* result is current_x + diffusion_coeff*dt*beta*force, and with force all
\* zeros too it is current_x.
C1_UpdateFormula ==
  last.status = "return" =>
    LET x == Pool[last.current_x].data
        f == Pool[last.force].data
        g == [i \in 1..Len(last.z) |-> RoundToSingle(last.z[i])]
        drift == last.diffusion_coeff * last.dt * last.beta
        nx == last.next_x.data IN
      /\ Len(nx) = Len(x)
      /\ Len(g) = Len(x)
      /\ \A i \in 1..Len(x) :
           nx[i] = x[i] + drift * f[i]
                   + Sqrt(2 * last.diffusion_coeff * last.dt) * g[i]
      /\ AllZero(last.z) => \A i \in 1..Len(x) : nx[i] = x[i] + drift * f[i]
      /\ (AllZero(last.z) /\ AllZero(f)) => nx = x

\* A returned step with a non-zero force, a non-zero position and non-zero noise
\* that narrowing changed, where sqrt(2*D*dt) differs from sqrt(D*dt).
C1_Witness ==
  /\ last.status = "return"
  /\ last.dt = 2 /\ last.diffusion_coeff = 1 /\ last.beta = 2
  /\ Pool[last.force].data = <<2, -2>>
  /\ Pool[last.current_x].data = <<1, -1>>
  /\ last.z = <<1, -3>>
  /\ last.next_x.data = <<13, -13>>

\* C2: a call with dt, diffusion_coeff or beta not strictly positive fails
\* with InvalidParameter and returns no configuration, whatever the arrays and
\* the other scalars.
C2_NonPositiveRejected ==
  (Called(last) /\ ~PositiveScalars(last)) =>
    /\ ErrorKind(last) = "InvalidParameter"
    /\ NoConfiguration(last)
    /\ Len(heap) = Len(Pool)

\* A rejected call whose only fault is a zero timestep, its arrays well shaped.
C2_Witness ==
  /\ last.status = "raise"
  /\ last.dt = 0 /\ last.diffusion_coeff > 0 /\ last.beta > 0
  /\ SameShape(last)
  /\ last.msg = MsgDt

\* C3: a call with positive scalars and arrays of different shapes fails with
\* ShapeMismatch, which is not InvalidParameter, and returns no configuration.
C3_ShapeMismatchRejected ==
  (Called(last) /\ PositiveScalars(last) /\ ~SameShape(last)) =>
    /\ ErrorKind(last) = "ShapeMismatch"
    /\ ErrorKind(last) # "InvalidParameter"
    /\ last.msg \notin {MsgDt, MsgDiffusion, MsgBeta}
    /\ NoConfiguration(last)
    /\ Len(heap) = Len(Pool)

\* A rejected call on two arrays of the same rank and size but different shapes.
C3_Witness ==
  /\ last.status = "raise"
  /\ PositiveScalars(last)
  /\ Pool[last.current_x].shape = <<1, 2>>
  /\ Pool[last.force].shape = <<2, 1>>
  /\ last.msg = MsgShape

\* C4: a call that fails validation leaves the random-number generator and the
\* caller's arrays as they were, wherever in the run it happens.
C4_FailedCallNoEffect ==
  [][ (calls' = calls + 1 /\ ~ValidArgs(last')) =>
        /\ rng' = rng
        /\ last'.rng_before = rng
        /\ heap' = SubSeq(heap, 1, Len(Pool))
        /\ heap'[last'.current_x] = heap[last'.current_x]
        /\ heap'[last'.force] = heap[last'.force] ]_vars

\* A failed validation after a step that consumed a draw.
C4_Witness ==
  /\ calls > 1
  /\ ~ValidArgs(last)
  /\ last.status = "raise"
  /\ last.rng_before.draws = calls - 1
  /\ rng.draws = calls - 1 /\ rng.pos = 2 * (calls - 1)

\* C5: the draws consumed equal the calls that passed validation, and a call
\* that passes consumes exactly one draw, of as many samples as current_x has
\* elements.
C5_OneDrawPerValidCall ==
  /\ rng.draws = passed
  /\ (Called(last) /\ ValidArgs(last)) =>
       /\ rng.draws = last.rng_before.draws + 1
       /\ rng.pos = last.rng_before.pos + Size(Pool[last.current_x].shape)
       /\ Len(last.z) = Size(Pool[last.current_x].shape)
  /\ (Called(last) /\ ~ValidArgs(last)) => rng = last.rng_before

\* A run of several steps, each of which drew one array of two samples.
C5_Witness ==
  /\ calls > 1 /\ passed = calls
  /\ last.status = "return"
  /\ rng.draws = calls /\ rng.pos = 2 * calls

\* C6: a call that passes validation leaves current_x and force as they were,
\* and the configuration it returns is a new array, neither of them.
C6_InputsUntouched ==
  [][ (calls' = calls + 1 /\ ValidArgs(last')) =>
        /\ heap'[last'.current_x] = heap[last'.current_x]
        /\ heap'[last'.force] = heap[last'.force]
        /\ last'.status = "return" =>
             /\ last'.value \notin {last'.current_x, last'.force}
             /\ last'.value \notin 1..Len(Pool)
             /\ last'.value \in 1..Len(heap')
             /\ SubSeq(heap', 1, Len(Pool)) = SubSeq(heap, 1, Len(Pool)) ]_vars

\* A returned step that moved the configuration, called with one array as both
\* current_x and force.
C6_Witness ==
  /\ last.status = "return"
  /\ last.current_x = last.force
  /\ last.next_x.data # Pool[last.current_x].data
  /\ heap[last.value] = last.next_x

\* C7: every call with valid inputs, of any rank, returns a configuration of
\* the shape of current_x, which passes the shape check against force.
C7_ShapePreserved ==
  (Called(last) /\ ValidArgs(last)) =>
    /\ last.status = "return"
    /\ last.next_x.shape = Pool[last.current_x].shape
    /\ last.next_x.shape = Pool[last.force].shape

\* C8: the returned configuration has the element type of current_x.
C8_DtypePreserved ==
  last.status = "return" => last.next_x.dtype = Pool[last.current_x].dtype

\* C9: two returned calls with the same beta, dt and diffusion_coeff whose
\* current_x, force and samples agree at element i agree at element i of the
\* result, whatever the other elements.
C9_Elementwise ==
  (/\ last.status = "return" /\ twin.status = "return"
   /\ last.beta = twin.beta /\ last.dt = twin.dt
   /\ last.diffusion_coeff = twin.diffusion_coeff) =>
    \A i \in 1..Len(last.next_x.data) :
      (/\ i \in 1..Len(twin.next_x.data)
       /\ Pool[last.current_x].data[i] = Pool[twin.current_x].data[i]
       /\ Pool[last.force].data[i] = Pool[twin.force].data[i]
       /\ last.z[i] = twin.z[i]) =>
        last.next_x.data[i] = twin.next_x.data[i]

\* Two returned calls that agree at the second element and differ at the first,
\* in the sample drawn and in the result.
C9_Witness ==
  /\ last.status = "return" /\ twin.status = "return"
  /\ last.beta = twin.beta /\ last.dt = twin.dt
  /\ last.diffusion_coeff = twin.diffusion_coeff
  /\ last.current_x = twin.current_x /\ last.force = twin.force
  /\ last.z[2] = twin.z[2] /\ last.z[1] # twin.z[1]
  /\ last.next_x.data[1] # twin.next_x.data[1]
  /\ last.next_x.data[2] = twin.next_x.data[2]

\* C10: the failure reported is that of the first failing check in the order
\* dt, diffusion_coeff, beta, shape; a non-positive scalar is never reported as
\* a shape error.
C10_FirstFailureReported ==
  Called(last) =>
    /\ last.dt <= 0 => last.msg = MsgDt
    /\ (last.dt > 0 /\ last.diffusion_coeff <= 0) => last.msg = MsgDiffusion
    /\ (last.dt > 0 /\ last.diffusion_coeff > 0 /\ last.beta <= 0) =>
         last.msg = MsgBeta
    /\ (~PositiveScalars(last) /\ ~SameShape(last)) =>
         /\ last.msg # MsgShape
         /\ ErrorKind(last) = "InvalidParameter"

\* A call failing all four checks at once, reported as the timestep's.
C10_Witness ==
  /\ Called(last)
  /\ last.dt <= 0 /\ last.diffusion_coeff <= 0 /\ last.beta <= 0
  /\ ~SameShape(last)
  /\ last.status = "raise"
  /\ last.msg = MsgDt

====
